---- MODULE Spec2Model ----
(***************************************************************************)
(* Job orchestration, result aggregation and export of the SoF Event       *)
(* Extractor backend (src/backend/app.py).                                 *)
(*                                                                         *)
(* The state is the process-wide job map, the upload directory, the result *)
(* directory, the queue of background tasks and the last response sent.    *)
(* Handlers are single actions: process_documents_with_sof_pipeline is an  *)
(* async function without any await, so it runs to completion on the event *)
(* loop; upload_documents only awaits file.read() and touches the job map  *)
(* after its last await.                                                   *)
(*                                                                         *)
(* Strings that the code takes apart (file names) are sequences of         *)
(* one-character strings; a job record is a function from field names to   *)
(* values, as the Python dict it models.                                   *)
(***************************************************************************)
EXTENDS Integers, Sequences, FiniteSets, TLC

VARIABLES
    jobs,       \* app.py:111  jobs = {}: job_id -> job record (a dict)
    uploads,    \* UPLOAD_DIR: path -> bytes written
    results,    \* RESULTS_DIR: path -> artifact written
    tasks,      \* BackgroundTasks: job_id -> scheduled call and how it ended
    drawn,      \* the identifiers uuid4 has produced so far
    resp,       \* the response of the last request handled
    served,     \* how many read and export requests were answered
    sending     \* the FileResponses returned by export_data and not yet sent

vars == <<jobs, uploads, results, tasks, drawn, resp, served, sending>>

----------------------------------------------------------------------------
(* Bounds of the exploration *)

\* identifiers uuid4 can produce (each upload request draws one)
MaxJobs == 2
\* files of the submissions that are enumerated in full
MaxFiles == 2
\* read and export requests answered in one run
MaxRequests == 2

----------------------------------------------------------------------------
(* Program constants *)

MAX_FILE_SIZE == 10485760
BatchLimit == 10

PROCESSING == "processing"
COMPLETED == "completed"
FAILED == "failed"

\* '.pdf', '.docx', ... as character sequences
allowed_extensions ==
    { <<".", "p", "d", "f">>, <<".", "d", "o", "c", "x">>, <<".", "d", "o", "c">>,
      <<".", "t", "x", "t">>, <<".", "p", "n", "g">>, <<".", "j", "p", "g">>,
      <<".", "j", "p", "e", "g">>, <<".", "t", "i", "f", "f">>, <<".", "b", "m", "p">>,
      <<".", "w", "e", "b", "p">> }

----------------------------------------------------------------------------
(* File names: str.lower() and str.split('.')[-1] *)

LowerChar(c) ==
    CASE c = "P" -> "p"
      [] c = "D" -> "d"
      [] c = "F" -> "f"
      [] c = "T" -> "t"
      [] c = "X" -> "x"
      [] c = "E" -> "e"
      [] OTHER -> c

Lower(s) == [i \in 1..Len(s) |-> LowerChar(s[i])]

\* the part of s after its last '.', the whole of s when it has none
LastSegment(s) ==
    LET dots == {i \in 1..Len(s) : s[i] = "."}
        last == IF dots = {} THEN 0 ELSE CHOOSE i \in dots : \A k \in dots : k <= i
    IN  SubSeq(s, last + 1, Len(s))

\* filename.lower().split('.')[-1]
FileExtension(filename) == LastSegment(Lower(filename))

----------------------------------------------------------------------------
(* Values: Python's None and str, kept apart by a tag *)

NoneVal == [t |-> "none"]
Str(s) == [t |-> "str", s |-> s]
\* bool(v) of an Optional[str]
Truthy(v) == v.t = "str" /\ v.s # ""

\* datetime.now().isoformat() as read for `event` of job job_id: the clock is
\* not under the program's control, each reading is a value of its own
Now(event, job_id) == <<"time", event, job_id>>

\* dict.update / {**a, **b}: the fields of new win over those of old
Update(old, new) == new @@ old

----------------------------------------------------------------------------
(* Requests: the files a client can submit *)

JobIds == 1..MaxJobs

pdf_a == <<"a", ".", "p", "d", "f">>
pdf_B == <<"b", ".", "P", "D", "F">>
txt_c == <<"c", ".", "t", "x", "t">>
exe_d == <<"d", ".", "e", "x", "e">>

File(filename, size) == [filename |-> filename, content |-> [size |-> size]]

\* the files a client submits: each name with a content of exactly the
\* maximum size, and one file that is one byte longer
UploadFile ==
    {File(pdf_a, MAX_FILE_SIZE), File(pdf_B, MAX_FILE_SIZE), File(txt_c, MAX_FILE_SIZE),
     File(exe_d, MAX_FILE_SIZE), File(pdf_a, MAX_FILE_SIZE + 1)}

SeqsUpTo(S, n) == UNION {[1..k -> S] : k \in 0..n}

\* a valid file repeated n times
Repeated(n) == [i \in 1..n |-> File(txt_c, MAX_FILE_SIZE)]

\* every list of at most MaxFiles files, and lists around the batch limit
Submissions ==
    SeqsUpTo(UploadFile, MaxFiles) \cup {Repeated(BatchLimit), Repeated(BatchLimit + 1)}

BatchNames == {NoneVal, Str(""), Str("voyage-7")}

----------------------------------------------------------------------------
(* POST /api/upload *)

\* UPLOAD_DIR / f"{job_id}_{i}_{file.filename}"
UploadPath(job_id, i, filename) == <<job_id, i, filename>>

\* app.py:487-511, from the file at position k (1-based; enumerate's i is k-1)
\* with `written` already persisted: validate, persist, go on; stop at the
\* first file that is refused.
RECURSIVE ValidateAndSave(_, _, _, _)
ValidateAndSave(files, job_id, k, written) ==
    IF k > Len(files)
    THEN [ok |-> TRUE, written |-> written]
    ELSE LET file == files[k]
             file_extension == <<".">> \o FileExtension(file.filename)
         IN  IF file_extension \notin allowed_extensions
             THEN [ok |-> FALSE, written |-> written, status_code |-> 400,
                   detail |-> [error |-> "Unsupported file type",
                               extension |-> file_extension,
                               filename |-> file.filename]]
             ELSE IF file.content.size > MAX_FILE_SIZE
             THEN [ok |-> FALSE, written |-> written, status_code |-> 400,
                   detail |-> [error |-> "exceeds the maximum allowed size",
                               filename |-> file.filename,
                               limit |-> MAX_FILE_SIZE]]
             ELSE ValidateAndSave(files, job_id, k + 1,
                      (UploadPath(job_id, k - 1, file.filename) :> file.content) @@ written)

Filenames(files) == [i \in 1..Len(files) |-> files[i].filename]

\* file_paths_and_names: (file_path, file.filename) per file
PathsAndNames(files, job_id) ==
    [i \in 1..Len(files) |->
        [file_path |-> UploadPath(job_id, i - 1, files[i].filename),
         filename |-> files[i].filename]]

\* NewJob with the job created as already completed
NewJob_Completed(job_id, files, use_enhanced_processing, created_at) ==
    [job_id |-> job_id,
     status |-> COMPLETED,
     user |-> "demo",
     filenames |-> Filenames(files),
     total_files |-> Len(files),
     use_enhanced_processing |-> use_enhanced_processing,
     created_at |-> created_at]

\* app.py:514-522
NewJob(job_id, files, use_enhanced_processing, created_at) ==
    [job_id |-> job_id,
     status |-> PROCESSING,
     user |-> "demo",
     filenames |-> Filenames(files),
     total_files |-> Len(files),
     use_enhanced_processing |-> use_enhanced_processing,
     created_at |-> created_at]

\* NewTask with the task never handed to background_tasks
NewTask_NotScheduled(job_id, files, use_enhanced_processing) ==
    [job_id |-> job_id,
     file_paths_and_names |-> PathsAndNames(files, job_id),
     use_enhanced_processing |-> use_enhanced_processing,
     state |-> "dropped"]

\* app.py:525-530
NewTask(job_id, files, use_enhanced_processing) ==
    [job_id |-> job_id,
     file_paths_and_names |-> PathsAndNames(files, job_id),
     use_enhanced_processing |-> use_enhanced_processing,
     state |-> "scheduled"]

\* app.py:534-540
UploadResult(job_id, files, use_enhanced_processing) ==
    [job_id |-> job_id,
     filenames |-> Filenames(files),
     total_files |-> Len(files),
     enhanced_processing |-> use_enhanced_processing]

Empty == <<>>

\* DoUpload with the job entry and the task created before the files are
\* validated
DoUpload_JobFirst(op, files, use_enhanced_processing, jobExtra, respExtra) ==
    IF files = <<>>
    THEN /\ resp' = [op |-> op, status_code |-> 400,
                     detail |-> [error |-> "No files uploaded"]]
         /\ UNCHANGED <<jobs, uploads, results, tasks, drawn>>
    ELSE /\ Cardinality(drawn) < MaxJobs
         /\ LET job_id == Cardinality(drawn) + 1
                saved == ValidateAndSave(files, job_id, 1, <<>>)
            IN  /\ drawn' = drawn \cup {job_id}
                /\ uploads' = saved.written @@ uploads
                /\ jobs' = (job_id :> Update(NewJob(job_id, files,
                                use_enhanced_processing, Now("created", job_id)), jobExtra)) @@ jobs
                /\ tasks' = (job_id :> NewTask(job_id, files,
                                use_enhanced_processing)) @@ tasks
                /\ resp' = IF saved.ok
                           THEN [op |-> op, status_code |-> 200,
                                 body |-> Update(UploadResult(job_id, files,
                                             use_enhanced_processing), respExtra)]
                           ELSE [op |-> op, status_code |-> saved.status_code,
                                 detail |-> saved.detail]
                /\ UNCHANGED results

\* The body of upload_documents, shared by both entry points: `extra` is what
\* upload_batch_documents adds to the job record and to the response.
DoUpload(op, files, use_enhanced_processing, jobExtra, respExtra) ==
    IF files = <<>>
    THEN /\ resp' = [op |-> op, status_code |-> 400,
                     detail |-> [error |-> "No files uploaded"]]
         /\ UNCHANGED <<jobs, uploads, results, tasks, drawn>>
    ELSE /\ Cardinality(drawn) < MaxJobs
         /\ LET job_id == Cardinality(drawn) + 1     \* str(uuid.uuid4())
                saved == ValidateAndSave(files, job_id, 1, <<>>)
            IN  /\ drawn' = drawn \cup {job_id}
                /\ uploads' = saved.written @@ uploads
                /\ IF saved.ok
                   THEN /\ jobs' = (job_id :> Update(NewJob(job_id, files,
                                        use_enhanced_processing, Now("created", job_id)), jobExtra)) @@ jobs
                        /\ tasks' = (job_id :> NewTask(job_id, files,
                                        use_enhanced_processing)) @@ tasks
                        /\ resp' = [op |-> op, status_code |-> 200,
                                    body |-> Update(UploadResult(job_id, files,
                                                use_enhanced_processing), respExtra)]
                   ELSE /\ resp' = [op |-> op, status_code |-> saved.status_code,
                                    detail |-> saved.detail]
                        /\ UNCHANGED <<jobs, tasks>>
                /\ UNCHANGED results

upload_documents(files, use_enhanced_processing) ==
    DoUpload("upload", files, use_enhanced_processing, Empty, Empty)

\* upload_batch_documents without the test of lines 579-580
upload_batch_documents_NoCap(files, use_enhanced_processing, batch_name) ==
    DoUpload("upload-batch", files, use_enhanced_processing,
             IF Truthy(batch_name) THEN [batch_name |-> batch_name] ELSE Empty,
             [batch_name |-> batch_name, batch_size |-> Len(files)])

\* POST /api/upload-batch, app.py:575-600
upload_batch_documents(files, use_enhanced_processing, batch_name) ==
    IF files # <<>> /\ Len(files) > BatchLimit
    THEN /\ resp' = [op |-> "upload-batch", status_code |-> 400,
                     detail |-> [error |-> "Maximum 10 files per batch"]]
         /\ UNCHANGED <<jobs, uploads, results, tasks, drawn>>
    ELSE DoUpload("upload-batch", files, use_enhanced_processing,
                  IF Truthy(batch_name) THEN [batch_name |-> batch_name] ELSE Empty,
                  [batch_name |-> batch_name, batch_size |-> Len(files)])

----------------------------------------------------------------------------
(* What the extraction pipeline hands back: a DataFrame and a summary *)

Bool(b) == [t |-> "bool", b |-> b]
NaN == [t |-> "nan"]
Timestamp(d, h) == [t |-> "ts", d |-> d, h |-> h]

\* pd.isna(value)
IsNa(v) == v.t \in {"nan", "none"}

\* str(value) of a bool or a str
PyStr(v) == IF v.t = "bool" THEN (IF v.b THEN "True" ELSE "False") ELSE v.s

\* value.isoformat() of a Timestamp
IsoFormat(v) == v.d \o "T" \o v.h

\* app.py:365-370 (and 402-407): one cell of an event record
NormalizeValue(v) ==
    IF IsNa(v) THEN NoneVal
    ELSE IF v.t = "ts" THEN Str(IsoFormat(v))
    ELSE Str(PyStr(v))

\* app.py:361-371: events_df.to_dict('records') with every cell normalized
NormalizeRecords(events_df) ==
    [r \in 1..Len(events_df.rows) |->
        [c \in events_df.columns |-> NormalizeValue(events_df.rows[r][c])]]

\* events_df.empty: no row or no column
IsEmptyFrame(events_df) == events_df.rows = <<>> \/ events_df.columns = {}

EmptyFrame == [columns |-> {}, rows |-> <<>>]

\* the file name as the pipeline writes it into a cell
NameText(filename) ==
    CASE filename = pdf_a -> "a.pdf"
      [] filename = pdf_B -> "b.PDF"
      [] filename = txt_c -> "c.txt"
      [] filename = exe_d -> "d.exe"

\* The frames the pipeline is taken to return for the documents `names`: no
\* event at all, or one event per document whose laytime_counts cell is
\* True, False or missing.
FrameKinds == {"empty", "counts", "nocounts", "nan"}

LaytimeCell(kind) ==
    CASE kind = "counts" -> Bool(TRUE)
      [] kind = "nocounts" -> Bool(FALSE)
      [] kind = "nan" -> NaN

FrameOf(kind, names) ==
    IF kind = "empty" THEN EmptyFrame
    ELSE [columns |-> {"Event", "start_time_iso", "laytime_counts", "filename"},
          rows |-> [i \in 1..Len(names) |->
                      [Event |-> Str("Arrived"),
                       start_time_iso |-> Timestamp("2024-01-01", "10:00:00"),
                       laytime_counts |-> LaytimeCell(kind),
                       filename |-> Str(NameText(names[i]))]]]

\* summary_data: None, {}, a mapping, or (against the contract) a string
SummaryKinds == {"none", "empty", "map", "text"}

SummaryOf(kind) ==
    CASE kind = "none" -> [t |-> "none"]
      [] kind = "empty" -> [t |-> "map", m |-> Empty]
      [] kind = "map" -> [t |-> "map", m |-> [port |-> "Rotterdam"]]
      [] kind = "text" -> [t |-> "text", s |-> "n/a"]

\* bool(summary_data)
SummaryTruthy(summary_data) ==
    CASE summary_data.t = "none" -> FALSE
      [] summary_data.t = "map" -> summary_data.m # Empty
      [] summary_data.t = "text" -> summary_data.s # ""

----------------------------------------------------------------------------
(* The environment of one run of the orchestrator: what os.getenv, open()   *)
(* and the pipeline calls do during it.                                     *)

NotCalled == [k |-> "na"]
Raises(on) == [k |-> "raise", on |-> on]
Returns(frame, summary) == [k |-> "ok", frame |-> frame, summary |-> summary]

\* positions whose open() may fail: any for the enumerated submissions
ReadFaults(n) == IF n <= MaxFiles THEN SUBSET (1..n) ELSE {{}, {n}, 1..n}

RaisePositions(n) == {1, n}

ExtractOutcomes(n, pairs) ==
    {NotCalled} \cup {Raises(on) : on \in RaisePositions(n)}
        \cup {Returns(p[1], p[2]) : p \in pairs}

Environments(n, keys, pairs, writes) ==
    [gemini_api_key : keys,
     unreadable : ReadFaults(n),
     loader : {"na", "raise", "nodocs", "docs"},
     extract : ExtractOutcomes(n, pairs),
     write_ok : writes]

----------------------------------------------------------------------------
(* process_documents_with_sof_pipeline *)

StartLocals ==
    [all_file_uploads |-> <<>>,
     all_events_list |-> <<>>,
     all_summaries |-> <<>>,
     processed_filenames |-> <<>>,
     route |-> <<>>,
     loader_called |-> FALSE,
     extract_args |-> <<>>]

\* app.py:360-376 and 397-411: what follows a pipeline call that returned.
\* The events are appended first; a summary that is no mapping makes
\* {**summary_data, ...} raise, after the events were appended.
TakeResult(loc, out, names, source_file) ==
    LET events_df == FrameOf(out.frame, names)
        summary_data == SummaryOf(out.summary)
        withEvents ==
            IF IsEmptyFrame(events_df) THEN loc
            ELSE [loc EXCEPT !.all_events_list = @ \o NormalizeRecords(events_df)]
    IN  IF ~SummaryTruthy(summary_data)
        THEN [raised |-> FALSE, loc |-> withEvents]
        ELSE IF summary_data.t # "map"
        THEN [raised |-> TRUE, loc |-> withEvents]
        ELSE [raised |-> FALSE,
              loc |-> [withEvents EXCEPT !.all_summaries =
                          Append(@, Update(summary_data.m, [source_file |-> source_file]))]]

\* UseEnhanced without the test on the number of files
UseEnhanced_AnyCount(use_enhanced_processing, filename, n) ==
    use_enhanced_processing /\ FileExtension(filename) = <<"p", "d", "f">>

\* app.py:345: the dispatch rule
UseEnhanced(use_enhanced_processing, filename, n) ==
    use_enhanced_processing /\ FileExtension(filename) = <<"p", "d", "f">> /\ n = 1

\* ProcessFile with a collected file put in front of all_file_uploads
ProcessFile_Prepending(loc, task, k, env) ==
    LET filename == task.file_paths_and_names[k].filename
        file_path == task.file_paths_and_names[k].file_path
        n == Len(task.file_paths_and_names)
    IN  IF k \in env.unreadable \/ file_path \notin DOMAIN uploads
        THEN [loc EXCEPT !.route = Append(@, "unread")]
        ELSE IF UseEnhanced(task.use_enhanced_processing, filename, n)
        THEN LET routed == [loc EXCEPT !.route = Append(@, "enhanced")]
             IN  IF env.gemini_api_key = ""
                 THEN routed
                 ELSE LET called == [routed EXCEPT !.extract_args = <<filename>>]
                      IN  IF env.extract.k # "ok"
                          THEN called
                          ELSE LET got == TakeResult(called, env.extract,
                                                     <<filename>>, NameText(filename))
                               IN  IF got.raised THEN got.loc
                                   ELSE [got.loc EXCEPT !.processed_filenames =
                                                            Append(@, filename)]
        ELSE [loc EXCEPT !.route = Append(@, "batch"),
                         !.all_file_uploads = <<filename>> \o @]

\* app.py:331-381: one iteration of the loop over file_paths_and_names
ProcessFile(loc, task, k, env) ==
    LET filename == task.file_paths_and_names[k].filename
        file_path == task.file_paths_and_names[k].file_path
        n == Len(task.file_paths_and_names)
    IN  IF k \in env.unreadable \/ file_path \notin DOMAIN uploads
        THEN [loc EXCEPT !.route = Append(@, "unread")]           \* open() raised
        ELSE IF UseEnhanced(task.use_enhanced_processing, filename, n)
        THEN LET routed == [loc EXCEPT !.route = Append(@, "enhanced")]
             IN  IF env.gemini_api_key = ""
                 THEN routed                                       \* raise Exception
                 ELSE LET called == [routed EXCEPT !.extract_args = <<filename>>]
                      IN  IF env.extract.k # "ok"
                          THEN called                              \* the call raised
                          ELSE LET got == TakeResult(called, env.extract,
                                                     <<filename>>, NameText(filename))
                               IN  IF got.raised THEN got.loc
                                   ELSE [got.loc EXCEPT !.processed_filenames =
                                                            Append(@, filename)]
        ELSE [loc EXCEPT !.route = Append(@, "batch"),
                         !.all_file_uploads = Append(@, filename)]

RECURSIVE FileLoop(_, _, _, _)
FileLoop(loc, task, k, env) ==
    IF k > Len(task.file_paths_and_names) THEN loc
    ELSE FileLoop(ProcessFile(loc, task, k, env), task, k + 1, env)

\* ProcessBatch with line 416 repeated inside the `if docs:` branch
ProcessBatch_ExtendTwice(loc, env) ==
    IF loc.all_file_uploads = <<>> THEN loc
    ELSE LET called == [loc EXCEPT !.loader_called = TRUE]
             names == loc.all_file_uploads
             done(l) == [l EXCEPT !.processed_filenames = @ \o names]
         IN  IF env.loader \notin {"docs", "nodocs"}
             THEN called
             ELSE IF env.loader = "nodocs"
             THEN done(called)
             ELSE IF env.gemini_api_key = ""
             THEN done(done(called))
             ELSE LET asked == [called EXCEPT !.extract_args = names]
                  IN  IF env.extract.k # "ok"
                      THEN asked
                      ELSE LET got == TakeResult(asked, env.extract, names,
                                                 "batch_processed")
                           IN  IF got.raised THEN got.loc ELSE done(done(got.loc))

\* ProcessBatch with line 416 moved in front of the pipeline calls
ProcessBatch_ExtendFirst(loc, env) ==
    IF loc.all_file_uploads = <<>> THEN loc
    ELSE LET names == loc.all_file_uploads
             called == [loc EXCEPT !.loader_called = TRUE,
                                   !.processed_filenames = @ \o names]
         IN  IF env.loader \notin {"docs", "nodocs"}
             THEN called
             ELSE IF env.loader = "nodocs" \/ env.gemini_api_key = ""
             THEN called
             ELSE LET asked == [called EXCEPT !.extract_args = names]
                  IN  IF env.extract.k # "ok"
                      THEN asked
                      ELSE TakeResult(asked, env.extract, names, "batch_processed").loc

\* ProcessBatch with line 416 inside the branch of the extraction call
ProcessBatch_ExtendWhenExtracted(loc, env) ==
    IF loc.all_file_uploads = <<>> THEN loc
    ELSE LET called == [loc EXCEPT !.loader_called = TRUE]
             names == loc.all_file_uploads
             done(l) == [l EXCEPT !.processed_filenames = @ \o names]
         IN  IF env.loader \notin {"docs", "nodocs"}
             THEN called
             ELSE IF env.loader = "nodocs" \/ env.gemini_api_key = ""
             THEN called
             ELSE LET asked == [called EXCEPT !.extract_args = names]
                  IN  IF env.extract.k # "ok"
                      THEN asked
                      ELSE LET got == TakeResult(asked, env.extract, names,
                                                 "batch_processed")
                           IN  IF got.raised THEN got.loc ELSE done(got.loc)

\* app.py:384-419: the standard pipeline on the collected files
ProcessBatch(loc, env) ==
    IF loc.all_file_uploads = <<>> THEN loc
    ELSE LET called == [loc EXCEPT !.loader_called = TRUE]
             names == loc.all_file_uploads
             done(l) == [l EXCEPT !.processed_filenames = @ \o names]
         IN  IF env.loader \notin {"docs", "nodocs"}
             THEN called                                           \* the loader raised
             ELSE IF env.loader = "nodocs" \/ env.gemini_api_key = ""
             THEN done(called)
             ELSE LET asked == [called EXCEPT !.extract_args = names]
                  IN  IF env.extract.k # "ok"
                      THEN asked                                   \* the call raised
                      ELSE LET got == TakeResult(asked, env.extract, names,
                                                 "batch_processed")
                           IN  IF got.raised THEN got.loc ELSE done(got.loc)

\* app.py:422-426: the first summary, without its source_file
CombinedSummary(all_summaries) ==
    IF all_summaries = <<>> THEN Empty
    ELSE [f \in DOMAIN all_summaries[1] \ {"source_file"} |-> all_summaries[1][f]]

\* event.get('laytime_counts') taken as a condition
LaytimeCounts(event) ==
    "laytime_counts" \in DOMAIN event /\ Truthy(event["laytime_counts"])

\* HasLaytimeData reading the field as the boolean it was before str()
HasLaytimeData_AsBoolean(all_events_list) ==
    Len(all_events_list) > 0
        /\ \E i \in 1..Len(all_events_list) :
              /\ "laytime_counts" \in DOMAIN all_events_list[i]
              /\ all_events_list[i]["laytime_counts"] = Str("True")

\* app.py:435
HasLaytimeData(all_events_list) ==
    Len(all_events_list) > 0
        /\ \E i \in 1..Len(all_events_list) : LaytimeCounts(all_events_list[i])

\* app.py:432-439
ResultData(loc, n) ==
    [events |-> loc.all_events_list,
     summary |-> CombinedSummary(loc.all_summaries),
     has_laytime_data |-> HasLaytimeData(loc.all_events_list),
     processed_files |-> loc.processed_filenames,
     total_files |-> n,
     successful_files |-> Len(loc.processed_filenames)]

\* RESULTS_DIR / f"{job_id}_results.json"
ResultPath(job_id) == <<job_id, "_results.json">>

\* CompletedFields with a job none of whose files was processed marked FAILED
CompletedFields_FailedWhenNone(result_data, result_file, processed_at) ==
    [status |-> IF result_data.successful_files = 0 THEN FAILED ELSE COMPLETED,
     events |-> result_data.events,
     summary |-> result_data.summary,
     has_laytime_data |-> result_data.has_laytime_data,
     processed_at |-> processed_at,
     result_file |-> result_file,
     processed_files |-> result_data.processed_files,
     total_files |-> result_data.total_files,
     successful_files |-> result_data.successful_files]

\* CompletedFields with the status written and the time of completion left
\* for a second update
CompletedFields_StatusFirst(result_data, result_file, processed_at) ==
    [status |-> COMPLETED,
     events |-> result_data.events,
     summary |-> result_data.summary,
     has_laytime_data |-> result_data.has_laytime_data,
     result_file |-> result_file,
     processed_files |-> result_data.processed_files,
     total_files |-> result_data.total_files,
     successful_files |-> result_data.successful_files]

\* CompletedFields with total_files taken from the processed files
CompletedFields_TotalProcessed(result_data, result_file, processed_at) ==
    [status |-> COMPLETED,
     events |-> result_data.events,
     summary |-> result_data.summary,
     has_laytime_data |-> result_data.has_laytime_data,
     processed_at |-> processed_at,
     result_file |-> result_file,
     processed_files |-> result_data.processed_files,
     total_files |-> result_data.successful_files,
     successful_files |-> result_data.successful_files]

\* app.py:446-456
CompletedFields(result_data, result_file, processed_at) ==
    [status |-> COMPLETED,
     events |-> result_data.events,
     summary |-> result_data.summary,
     has_laytime_data |-> result_data.has_laytime_data,
     processed_at |-> processed_at,
     result_file |-> result_file,
     processed_files |-> result_data.processed_files,
     total_files |-> result_data.total_files,
     successful_files |-> result_data.successful_files]

\* FailedFields with the result fields reset as well
FailedFields_WithEvents(error, failed_at) ==
    [status |-> FAILED, error |-> error, failed_at |-> failed_at,
     events |-> <<>>, summary |-> Empty]

\* app.py:462-466
FailedFields(error, failed_at) ==
    [status |-> FAILED, error |-> error, failed_at |-> failed_at]

\* the locals after the loop and the batch step
Pipeline(task, env) == ProcessBatch(FileLoop(StartLocals, task, 1, env), env)

\* env names an outcome exactly for the calls this run makes
Consistent(loc, env) ==
    /\ (env.loader = "na") <=> ~loc.loader_called
    /\ (env.extract.k = "na") <=> (loc.extract_args = <<>>)
    /\ env.extract.k = "raise" => env.extract.on \in 1..Len(loc.extract_args)

process_documents_with_sof_pipeline(job_id, env) ==
    /\ job_id \in DOMAIN tasks
    /\ tasks[job_id].state = "scheduled"
    /\ LET task == tasks[job_id]
           loc == Pipeline(task, env)
           result_data == ResultData(loc, Len(task.file_paths_and_names))
           result_file == ResultPath(job_id)
       IN  /\ Consistent(loc, env)
           /\ tasks' = [tasks EXCEPT ![job_id] =
                            Update(@, [state |-> "done", env |-> env,
                                       route |-> loc.route,
                                       all_file_uploads |-> loc.all_file_uploads,
                                       extract_args |-> loc.extract_args])]
           /\ IF env.write_ok
              THEN /\ results' = (result_file :> result_data) @@ results
                   /\ jobs' = [jobs EXCEPT ![job_id] =
                                  Update(@, CompletedFields(result_data, result_file,
                                                          Now("processed", job_id)))]
              ELSE /\ results' = results
                   /\ jobs' = [jobs EXCEPT ![job_id] =
                                  Update(@, FailedFields("cannot write result file",
                                                       Now("failed", job_id)))]
           /\ UNCHANGED <<uploads, drawn>>
           /\ resp' = resp

\* A run of the orchestrator in which an external call (open() at line 336,
\* the pipeline calls at 352, 387 and 394, json.dump at 442) never returns.
\* The calls are synchronous and there is neither a timeout nor a
\* cancellation: the run never reaches line 446 or line 460.
process_documents_hangs(job_id) ==
    /\ job_id \in DOMAIN tasks
    /\ tasks[job_id].state = "scheduled"
    /\ tasks' = [tasks EXCEPT ![job_id] = Update(@, [state |-> "hung"])]
    /\ UNCHANGED <<jobs, uploads, results, drawn>>
    /\ resp' = resp

\* The orchestrator is a coroutine of the server's event loop and does not
\* await: while one of its calls does not return, no handler and no other
\* task runs.
LoopRunning == \A job_id \in DOMAIN tasks : tasks[job_id].state # "hung"

----------------------------------------------------------------------------
(* GET /api/result, GET /api/status, GET /api/jobs *)

\* dict.get(key, default)
Get(d, key, default) == IF key \in DOMAIN d THEN d[key] ELSE default

\* job.get("filenames") or [job.get("filename", "")]
JobFilenames(job) ==
    IF "filenames" \in DOMAIN job /\ job["filenames"] # <<>>
    THEN job["filenames"]
    ELSE <<Get(job, "filename", <<>>)>>

\* ResultResponse without the branch for FAILED: a job that is not COMPLETED
\* is answered as still being processed
ResultResponse_NoFailedBranch(job_id) ==
    IF job_id \notin DOMAIN jobs
    THEN [op |-> "result", job_id |-> job_id, status_code |-> 404,
          detail |-> [error |-> "Job not found"]]
    ELSE LET job == jobs[job_id]
             filenames == JobFilenames(job)
         IN  IF job["status"] # COMPLETED
             THEN [op |-> "result", job_id |-> job_id, status_code |-> 200,
                   body |-> [job_id |-> job_id,
                             status |-> PROCESSING,
                             message |-> "Document(s) still being processed",
                             total_files |-> Get(job, "total_files", 1),
                             filenames |-> Get(job, "filenames",
                                               <<Get(job, "filename", <<>>)>>)]]
             ELSE [op |-> "result", job_id |-> job_id, status_code |-> 200,
                   body |-> [job_id |-> job_id,
                             status |-> COMPLETED,
                             filenames |-> filenames,
                             total_files |-> Get(job, "total_files", Len(filenames)),
                             processed_files |-> Get(job, "processed_files", filenames),
                             successful_files |-> Get(job, "successful_files",
                                                      Len(filenames)),
                             events |-> job["events"],
                             summary |-> Get(job, "summary", Empty),
                             has_laytime_data |-> Get(job, "has_laytime_data", FALSE),
                             processed_at |-> job["processed_at"]]]

\* app.py:650-687
ResultResponse(job_id) ==
    IF job_id \notin DOMAIN jobs
    THEN [op |-> "result", job_id |-> job_id, status_code |-> 404,
          detail |-> [error |-> "Job not found"]]
    ELSE LET job == jobs[job_id]
             filenames == JobFilenames(job)
         IN  IF job["status"] = PROCESSING
             THEN [op |-> "result", job_id |-> job_id, status_code |-> 200,
                   body |-> [job_id |-> job_id,
                             status |-> PROCESSING,
                             message |-> "Document(s) still being processed",
                             total_files |-> Get(job, "total_files", 1),
                             filenames |-> Get(job, "filenames",
                                               <<Get(job, "filename", <<>>)>>)]]
             ELSE IF job["status"] = FAILED
             THEN [op |-> "result", job_id |-> job_id, status_code |-> 200,
                   body |-> [job_id |-> job_id,
                             status |-> FAILED,
                             error |-> job["error"],
                             total_files |-> Get(job, "total_files", 1),
                             filenames |-> Get(job, "filenames",
                                               <<Get(job, "filename", <<>>)>>)]]
             ELSE [op |-> "result", job_id |-> job_id, status_code |-> 200,
                   body |-> [job_id |-> job_id,
                             status |-> COMPLETED,
                             filenames |-> filenames,
                             total_files |-> Get(job, "total_files", Len(filenames)),
                             processed_files |-> Get(job, "processed_files", filenames),
                             successful_files |-> Get(job, "successful_files",
                                                      Len(filenames)),
                             events |-> job["events"],
                             summary |-> Get(job, "summary", Empty),
                             has_laytime_data |-> Get(job, "has_laytime_data", FALSE),
                             processed_at |-> job["processed_at"]]]

\* app.py:704-711 and 855-862: the entry both get_status and list_jobs build
StatusEntry(job_id, job) ==
    LET filenames == JobFilenames(job)
    IN  [job_id |-> job_id,
         status |-> job["status"],
         filenames |-> filenames,
         total_files |-> Get(job, "total_files", Len(filenames)),
         successful_files |-> IF job["status"] = COMPLETED
                              THEN Get(job, "successful_files", 0) ELSE 0,
         created_at |-> job["created_at"]]

\* app.py:694-711
StatusResponse(job_id) ==
    IF job_id \notin DOMAIN jobs
    THEN [op |-> "status", job_id |-> job_id, status_code |-> 404,
          detail |-> [error |-> "Job not found"]]
    ELSE [op |-> "status", job_id |-> job_id, status_code |-> 200,
          body |-> StatusEntry(job_id, jobs[job_id])]

\* app.py:850-864
ListResponse ==
    [op |-> "jobs", status_code |-> 200,
     body |-> [jobs |-> [job_id \in DOMAIN jobs |-> StatusEntry(job_id, jobs[job_id])]]]

\* get_result taking the job out of the map as it answers
get_result_Popping(job_id) ==
    /\ resp' = ResultResponse(job_id)
    /\ jobs' = [k \in DOMAIN jobs \ {job_id} |-> jobs[k]]
    /\ UNCHANGED <<uploads, results, tasks, drawn>>

get_result(job_id) ==
    /\ resp' = ResultResponse(job_id)
    /\ UNCHANGED <<jobs, uploads, results, tasks, drawn>>

get_status(job_id) ==
    /\ resp' = StatusResponse(job_id)
    /\ UNCHANGED <<jobs, uploads, results, tasks, drawn>>

list_jobs ==
    /\ resp' = ListResponse
    /\ UNCHANGED <<jobs, uploads, results, tasks, drawn>>

----------------------------------------------------------------------------
(* POST /api/export/{job_id} *)

\* app.py:780
preferred_columns ==
    <<"Event", "start_time_iso", "end_time_iso", "Date", "Duration", "Laytime",
      "Raw Line", "Filename">>

\* columns_to_remove with 'Event' written for 'event'
columns_to_remove_Capitalized ==
    <<"start", "end", "duration", "laytime_utilization_%", "Event", "date",
      "description", "raw_line", "filename">>

\* app.py:772
columns_to_remove ==
    <<"start", "end", "duration", "laytime_utilization_%", "event", "date",
      "description", "raw_line", "filename">>

Range(seq) == {seq[i] : i \in 1..Len(seq)}

\* pd.DataFrame(events): the columns are the keys of all records, a record
\* without a key gets NaN in that column
DataFrame(events) ==
    LET columns == UNION {DOMAIN events[i] : i \in 1..Len(events)}
    IN  [columns |-> columns,
         rows |-> [i \in 1..Len(events) |->
                     [c \in columns |-> IF c \in DOMAIN events[i] THEN events[i][c]
                                        ELSE NaN]]]

\* events_df.drop(col, axis=1)
DropColumn(events_df, col) ==
    [columns |-> events_df.columns \ {col},
     rows |-> [i \in 1..Len(events_df.rows) |->
                 [c \in events_df.columns \ {col} |-> events_df.rows[i][c]]]]

\* app.py:767-768
DropLaytimeCounts(events_df) ==
    IF "laytime_counts" \in events_df.columns
    THEN DropColumn(events_df, "laytime_counts") ELSE events_df

\* app.py:772-776, from position k of columns_to_remove
RECURSIVE DropUnwanted(_, _)
DropUnwanted(events_df, k) ==
    IF k > Len(columns_to_remove) THEN events_df
    ELSE DropUnwanted(IF columns_to_remove[k] \in events_df.columns
                      THEN DropColumn(events_df, columns_to_remove[k])
                      ELSE events_df, k + 1)

\* app.py:781: [col for col in preferred_columns if col in events_df.columns]
FinalColumns(events_df) ==
    SelectSeq(preferred_columns, LAMBDA col : col \in events_df.columns)

\* app.py:782: events_df[final_columns], the columns now in order
Project(events_df, final_columns) ==
    [columns |-> final_columns,
     rows |-> [i \in 1..Len(events_df.rows) |->
                 [c \in Range(final_columns) |-> events_df.rows[i][c]]]]

\* app.py:766-783
NormalizeColumns(events_df) ==
    LET kept == DropUnwanted(DropLaytimeCounts(events_df), 1)
    IN  Project(kept, FinalColumns(kept))

\* value.strftime('%Y-%m-%d %H:%M:%S')
StrfTime(v) == v.d \o " " \o v.h

\* app.py:816-825: one cell of the JSON export
CleanValue(v) ==
    IF IsNa(v) \/ v = Str("") THEN NoneVal
    ELSE IF v.t = "ts" THEN Str(StrfTime(v))
    ELSE Str(PyStr(v))

\* app.py:812-826
CleanEvents(events_df) ==
    [i \in 1..Len(events_df.rows) |->
        [c \in Range(events_df.columns) |-> CleanValue(events_df.rows[i][c])]]

\* export_format.lower()
LowerFormat(export_format) ==
    CASE export_format = "CSV" -> "csv"
      [] export_format = "JSON" -> "json"
      [] export_format = "XML" -> "xml"
      [] OTHER -> export_format

\* RESULTS_DIR / f"{job_id}_export.csv" and f"{job_id}_export.json"
ExportPath(job_id, suffix) == <<job_id, suffix>>

\* The frame calculate_laytime returns: the events it was given with the
\* computed per-event fields added.
LaytimeFrame(events_df) ==
    [columns |-> events_df.columns \cup {"Laytime", "laytime_utilization_%"},
     rows |-> [i \in 1..Len(events_df.rows) |->
                 [c \in events_df.columns \cup {"Laytime", "laytime_utilization_%"} |->
                     IF c = "Laytime" THEN Str("0.5")
                     ELSE IF c = "laytime_utilization_%" THEN Str("12.5")
                     ELSE events_df.rows[i][c]]]]

\* WithLaytime without the test on the summary
WithLaytime_NoSummaryTest(events_df, summary, laytime) ==
    IF ~IsEmptyFrame(events_df) /\ laytime = "ok"
    THEN LaytimeFrame(events_df)
    ELSE events_df

\* app.py:749-764: laytime is "raise", or "ok" when calculate_laytime returns
WithLaytime(events_df, summary, laytime) ==
    IF summary # Empty /\ ~IsEmptyFrame(events_df) /\ laytime = "ok"
    THEN LaytimeFrame(events_df)
    ELSE events_df

\* NoEvents with the test of line 741 left out
NoEvents_Never(events) == FALSE

\* app.py:741: `if not events`
NoEvents(events) == events = <<>>

\* ChosenEvents with the events of the request added to the stored ones
ChosenEvents_Merged(job, request_events) == job["events"] \o request_events

\* app.py:732-736
ChosenEvents(job, request_events) ==
    IF request_events # <<>> THEN request_events ELSE job["events"]

\* ExportError with every error reported as the 500 of the handler's
\* `except Exception`
ExportError_Always500(job_id, request, status_code, error) ==
    /\ resp' = [op |-> "export", job_id |-> job_id, request |-> request,
                status_code |-> 500, detail |-> [error |-> error]]
    /\ UNCHANGED <<jobs, uploads, results, tasks, drawn>>

\* app.py:724, 729, 742, 843: raise HTTPException
ExportError(job_id, request, status_code, error) ==
    /\ resp' = [op |-> "export", job_id |-> job_id, request |-> request,
                status_code |-> status_code, detail |-> [error |-> error]]
    /\ UNCHANGED <<jobs, uploads, results, tasks, drawn>>

\* ExportFile with the exported events kept as the job's events
ExportFile_StoringEvents(job_id, request, path, content, media_type, filename) ==
    /\ results' = (path :> content) @@ results
    /\ resp' = [op |-> "export", job_id |-> job_id, request |-> request,
                status_code |-> 200,
                path |-> path, media_type |-> media_type, filename |-> filename]
    /\ jobs' = [jobs EXCEPT ![job_id] =
                   Update(@, [events |-> ChosenEvents(@, request.events)])]
    /\ UNCHANGED <<uploads, tasks, drawn>>

\* app.py:785-837: the file is written and sent
ExportFile(job_id, request, path, content, media_type, filename) ==
    /\ results' = (path :> content) @@ results
    /\ resp' = [op |-> "export", job_id |-> job_id, request |-> request,
                status_code |-> 200,
                path |-> path, media_type |-> media_type, filename |-> filename]
    /\ UNCHANGED <<jobs, uploads, tasks, drawn>>

\* app.py:723-843
export_data(job_id, request_events, export_format, laytime) ==
    LET request == [events |-> request_events, type |-> export_format,
                    laytime |-> laytime]
    IN
    IF job_id \notin DOMAIN jobs
    THEN ExportError(job_id, request, 404, "Job not found")
    ELSE IF jobs[job_id]["status"] # COMPLETED
    THEN ExportError(job_id, request, 400, "Job not completed yet")
    ELSE LET job == jobs[job_id]
             events == ChosenEvents(job, request_events)
             summary == Get(job, "summary", Empty)
         IN  IF NoEvents(events)
             THEN ExportError(job_id, request, 404, "No events found")
             ELSE LET events_df ==
                          NormalizeColumns(WithLaytime(DataFrame(events), summary, laytime))
                  IN  IF LowerFormat(export_format) = "csv"
                      THEN ExportFile(job_id, request, ExportPath(job_id, "_export.csv"),
                                      [columns |-> events_df.columns,
                                       rows |-> events_df.rows],
                                      "text/csv", <<"sof_events_", job_id, ".csv">>)
                      ELSE IF LowerFormat(export_format) = "json"
                      THEN ExportFile(job_id, request, ExportPath(job_id, "_export.json"),
                                      [columns |-> events_df.columns,
                                       rows |-> CleanEvents(events_df)],
                                      "application/json",
                                      <<"sof_events_", job_id, ".json">>)
                      \* the HTTPException(400) of line 840 is raised inside the
                      \* try and caught by `except Exception` at line 842
                      ELSE ExportError(job_id, request, 500,
                                       "Export failed: Invalid export format")

----------------------------------------------------------------------------
(* The requests and environments explored *)

AllPairs == FrameKinds \X SummaryKinds

\* every environment of a run over n files
FullEnv(n) == Environments(n, {"", "key"}, AllPairs, BOOLEAN)

\* the environments that decide how a job ends: the token is configured, no
\* open() fails, the pipeline returns events with a summary or raises, and
\* the result file can be written or, after a call that returned, cannot
FewEnv(n) ==
    {env \in Environments(n, {"key"}, {<<"counts", "map">>}, BOOLEAN) :
        /\ env.unreadable = {}
        /\ env.loader \in {"na", "docs"}
        /\ env.extract.k = "raise" => (env.extract.on = 1 /\ env.write_ok)}

\* ... and those that decide what an export finds: events with a summary,
\* events without one, no event
ExportEnv(n) ==
    {env \in Environments(n, {"key"},
                          {<<"counts", "map">>, <<"counts", "none">>, <<"empty", "none">>},
                          BOOLEAN) :
        /\ env.unreadable = {}
        /\ env.loader \in {"na", "docs"}
        /\ env.extract.k = "raise" => env.extract.on = 1}

\* a submission of S with the enhanced-processing flag in Flags
Upload(S, Flags) ==
    /\ \E files \in S, e \in Flags : upload_documents(files, e)
    /\ UNCHANGED <<served, sending>>

UploadBatch(S, Flags, B) ==
    /\ \E files \in S, e \in Flags, b \in B : upload_batch_documents(files, e, b)
    /\ UNCHANGED <<served, sending>>

Process(E(_)) ==
    /\ \E job_id \in DOMAIN tasks :
        \E env \in E(Len(tasks[job_id].file_paths_and_names)) :
            process_documents_with_sof_pipeline(job_id, env)
    /\ UNCHANGED <<served, sending>>

\* job identifiers a client may ask for: those drawn and those never drawn
GetResult ==
    /\ served < MaxRequests
    /\ \E job_id \in JobIds : get_result(job_id)
    /\ served' = served + 1
    /\ UNCHANGED sending

GetStatus ==
    /\ served < MaxRequests
    /\ \E job_id \in JobIds : get_status(job_id)
    /\ served' = served + 1
    /\ UNCHANGED sending

ListJobs ==
    /\ served < MaxRequests
    /\ list_jobs
    /\ served' = served + 1
    /\ UNCHANGED sending

\* the columns an event sent by a client may carry
AllColumns ==
    Range(preferred_columns) \cup Range(columns_to_remove) \cup {"laytime_counts", "note"}

ClientCell(c) ==
    CASE c = "Event" -> Str("Manual entry")
      [] c = "Raw Line" -> Str("")
      [] c = "Date" -> NoneVal
      [] c = "laytime_counts" -> Bool(TRUE)
      [] OTHER -> Str("x")

ClientEvent(S) == [c \in S |-> ClientCell(c)]

\* export_request.events: no event, an event without any field, events with
\* canonical columns, with every column, with none that is exported, and two
\* events with different columns
ClientEventLists ==
    { <<>>,
      <<ClientEvent({})>>,
      <<ClientEvent({"Event", "Raw Line"})>>,
      <<ClientEvent(AllColumns)>>,
      <<ClientEvent(Range(columns_to_remove) \cup {"laytime_counts", "note"})>>,
      <<ClientEvent({"Event", "event"}), ClientEvent({"Date", "date", "Filename"})>> }

ExportFormats == {"csv", "JSON", "xml"}

Export(L, F, Y) ==
    /\ served < MaxRequests
    /\ \E job_id \in JobIds, request_events \in L, export_format \in F, laytime \in Y :
            export_data(job_id, request_events, export_format, laytime)
    /\ served' = served + 1
    /\ UNCHANGED sending

\* app.py:789-793 and 832-836: export_data returns a FileResponse that names
\* the path of the file it wrote. The framework opens and reads that file
\* when it sends the response, after the handler has returned; handlers of
\* other requests run in between.
ExportHeld(L, F, Y) ==
    /\ served < MaxRequests
    /\ \E job_id \in JobIds, request_events \in L, export_format \in F, laytime \in Y :
            export_data(job_id, request_events, export_format, laytime)
    /\ served' = served + 1
    /\ sending' = IF resp'.status_code = 200 THEN sending \cup {resp'} ELSE sending

\* FileResponse.__call__: the content of the file at the path, as it is now,
\* goes to the client of the request the response belongs to
SendFile ==
    /\ \E response \in sending :
          /\ resp' = [op |-> "download", job_id |-> response.job_id,
                      request |-> response.request, status_code |-> 200,
                      media_type |-> response.media_type,
                      filename |-> response.filename,
                      content |-> results[response.path]]
          /\ sending' = sending \ {response}
    /\ UNCHANGED <<jobs, uploads, results, tasks, drawn, served>>

----------------------------------------------------------------------------
(* Specifications *)

Init ==
    /\ jobs = <<>>
    /\ uploads = <<>>
    /\ results = <<>>
    /\ tasks = <<>>
    /\ drawn = {}
    /\ resp = [op |-> "none"]
    /\ served = 0
    /\ sending = {}

\* The life of several jobs: uploads through both entry points, runs of the
\* orchestrator, reads and exports, in any order.
FewSubmissions ==
    { <<>>,
      <<File(pdf_a, MAX_FILE_SIZE)>>,
      <<File(pdf_a, MAX_FILE_SIZE), File(exe_d, MAX_FILE_SIZE)>> }

Next ==
    \/ Upload(FewSubmissions, {FALSE})
    \/ UploadBatch({<<File(pdf_a, MAX_FILE_SIZE)>>}, {TRUE}, {Str("voyage-7")})
    \/ Process(FewEnv)
    \/ GetResult
    \/ GetStatus
    \/ ListJobs
    \/ Export({<<>>, <<ClientEvent({"Event"})>>}, {"csv"}, {"ok"})

Spec == Init /\ [][Next]_vars

\* One submission followed through the orchestrator in every environment.
NextPipeline ==
    \/ drawn = {} /\ Upload(Submissions, BOOLEAN)
    \/ Process(FullEnv)

SpecPipeline == Init /\ [][NextPipeline]_vars

\* The upload entry points alone. The lists have the file that is refused
\* at the first, at a middle and at the last position.
valid == File(txt_c, MAX_FILE_SIZE)
badType == File(exe_d, MAX_FILE_SIZE)
tooLong == File(pdf_a, MAX_FILE_SIZE + 1)

UploadCases ==
    { <<>>, <<valid>>, <<badType>>, <<tooLong>>,
      <<valid, badType>>, <<valid, tooLong>>, <<badType, valid>>, <<tooLong, badType>>,
      <<valid, badType, valid>>,
      Repeated(BatchLimit), Repeated(BatchLimit + 1) }

NextUpload ==
    \/ Upload(UploadCases, BOOLEAN)
    \/ UploadBatch(UploadCases, BOOLEAN, BatchNames)

SpecUpload == Init /\ [][NextUpload]_vars

\* One job and the export requests of it.
NextExport ==
    \/ drawn = {} /\ Upload({<<File(pdf_a, MAX_FILE_SIZE)>>}, BOOLEAN)
    \/ Process(ExportEnv)
    \/ Export(ClientEventLists, ExportFormats, {"ok", "raise"})

SpecExport == Init /\ [][NextExport]_vars

\* The jobs of several submissions when an external call may never return.
\* A scheduled task is run unless the loop is blocked.
Hang ==
    /\ \E job_id \in DOMAIN tasks : process_documents_hangs(job_id)
    /\ UNCHANGED <<served, sending>>

Run(job_id) ==
    /\ LoopRunning
    /\ job_id \in DOMAIN tasks
    /\ \E env \in FewEnv(Len(tasks[job_id].file_paths_and_names)) :
            process_documents_with_sof_pipeline(job_id, env)
    /\ UNCHANGED <<served, sending>>

NextLive ==
    \/ LoopRunning /\ Upload(FewSubmissions, {FALSE})
    \/ \E job_id \in JobIds : Run(job_id)
    \/ LoopRunning /\ Hang
    \/ LoopRunning /\ GetStatus

SpecLive ==
    /\ Init
    /\ [][NextLive]_vars
    /\ \A job_id \in JobIds : WF_vars(Run(job_id))

\* One job, the export requests of it and the sending of their files.
SendLists ==
    { <<>>,
      <<ClientEvent({"Event", "Raw Line"})>>,
      <<ClientEvent({"Event", "event"}), ClientEvent({"Date", "date", "Filename"})>> }

NextSend ==
    \/ drawn = {} /\ Upload({<<File(pdf_a, MAX_FILE_SIZE)>>}, {FALSE})
    \/ Process(ExportEnv)
    \/ ExportHeld(SendLists, {"csv", "json"}, {"ok"})
    \/ SendFile

SpecSend == Init /\ [][NextSend]_vars

----------------------------------------------------------------------------
(* Properties *)

Terminal(status) == status \in {COMPLETED, FAILED}

Done(job_id) == job_id \in DOMAIN tasks /\ tasks[job_id].state = "done"

\* C1: a job record appears only through an accepted upload and then has
\* status PROCESSING; no job record disappears; the status of a job changes
\* only from PROCESSING to COMPLETED or to FAILED, and never once it is
\* COMPLETED or FAILED, whatever step is taken.
C1_StatusTransitions ==
    [][ /\ DOMAIN jobs \subseteq DOMAIN jobs'
        /\ \A j \in DOMAIN jobs' :
              IF j \notin DOMAIN jobs
              THEN /\ jobs'[j]["status"] = PROCESSING
                   /\ resp'.op \in {"upload", "upload-batch"}
                   /\ resp'.status_code = 200
                   /\ resp'.body.job_id = j
              ELSE \/ jobs'[j]["status"] = jobs[j]["status"]
                   \/ /\ jobs[j]["status"] = PROCESSING
                      /\ Terminal(jobs'[j]["status"]) ]_vars

\* C1 witness: one job COMPLETED, another FAILED, and a request answered
\* after both ended.
C1_Witness ==
    /\ \E j \in DOMAIN jobs : jobs[j]["status"] = COMPLETED
    /\ \E j \in DOMAIN jobs : jobs[j]["status"] = FAILED
    /\ resp.op = "export"
    /\ served = MaxRequests

\* C2: a run of the orchestrator ends in FAILED exactly when the result file
\* cannot be written, and the record then carries the error text and
\* failed_at; whatever failed to be read or extracted, the job is COMPLETED
\* otherwise, also with successful_files = 0.
C2_FailedOnlyOnEscape ==
    \A j \in DOMAIN jobs :
        Done(j) =>
            IF tasks[j].env.write_ok
            THEN jobs[j]["status"] = COMPLETED
            ELSE /\ jobs[j]["status"] = FAILED
                 /\ {"error", "failed_at"} \subseteq DOMAIN jobs[j]
                 /\ jobs[j]["error"] # ""

\* C2 witness: of two files one could not be read and the pipeline raised on
\* the other; the job is COMPLETED with successful_files = 0.
C2_Witness ==
    \E j \in DOMAIN jobs :
        /\ Done(j)
        /\ tasks[j].env.unreadable # {}
        /\ tasks[j].env.extract.k = "raise"
        /\ jobs[j]["status"] = COMPLETED
        /\ jobs[j]["successful_files"] = 0
        /\ jobs[j]["total_files"] = 2

\* sub is seq with some of its elements left out, the order kept
RECURSIVE IsSubList(_, _)
IsSubList(sub, seq) ==
    IF sub = <<>> THEN TRUE
    ELSE IF seq = <<>> THEN FALSE
    ELSE IF Head(sub) = Head(seq) THEN IsSubList(Tail(sub), Tail(seq))
    ELSE IsSubList(sub, Tail(seq))

\* C3: for every job, successful_files (0 when the field is absent) is at
\* most total_files, and processed_files is a sub-list of the submitted
\* filenames, each submitted file appearing at most once.
C3_SuccessfulAtMostTotal ==
    \A j \in DOMAIN jobs :
        /\ Get(jobs[j], "successful_files", 0) <= jobs[j]["total_files"]
        /\ IsSubList(Get(jobs[j], "processed_files", <<>>), jobs[j]["filenames"])
        /\ Get(jobs[j], "successful_files", 0) = Len(Get(jobs[j], "processed_files", <<>>))

\* C3 witness: a COMPLETED job of two files with one of them processed.
C3_Witness ==
    \E j \in DOMAIN jobs :
        /\ jobs[j]["status"] = COMPLETED
        /\ jobs[j]["total_files"] = 2
        /\ jobs[j]["successful_files"] = 1

\* The file name ends in ".pdf", whatever the case of its letters.
IsPdfName(filename) ==
    /\ Len(filename) >= 4
    /\ Lower(SubSeq(filename, Len(filename) - 3, Len(filename))) = <<".", "p", "d", "f">>

\* the events of a job all carry the name of the file at position k
EventsOnlyFrom(job, k) ==
    \A i \in 1..Len(job["events"]) :
        job["events"][i]["filename"] = Str(NameText(job["filenames"][k]))

\* a run over two files, both read, in which the extraction call raised
TwoFilesAdapterRaised(j) ==
    /\ Done(j)
    /\ Len(tasks[j].file_paths_and_names) = 2
    /\ tasks[j].env.unreadable = {}
    /\ tasks[j].env.extract.k = "raise"
    /\ tasks[j].env.write_ok

\* C4 as stated: two files, the adapter raises on one of them: the job is
\* COMPLETED with total_files = 2, successful_files = 1 and events only from
\* the other file.
C4_AsStated ==
    \A j \in DOMAIN jobs :
        TwoFilesAdapterRaised(j) =>
            /\ jobs[j]["status"] = COMPLETED
            /\ jobs[j]["total_files"] = 2
            /\ jobs[j]["successful_files"] = 1
            /\ EventsOnlyFrom(jobs[j], 3 - tasks[j].env.extract.on)

\* C4 amended: two files, the adapter raises on one of them: both files are
\* in the one batch call, so the job is COMPLETED with total_files = 2,
\* successful_files = 0 and no event. successful_files = 1 with events only
\* from the other file results when one of the two files cannot be read and
\* the batch call returns.
C4_BatchFailsAsAWhole ==
    \A j \in DOMAIN jobs :
        /\ TwoFilesAdapterRaised(j) =>
              /\ jobs[j]["status"] = COMPLETED
              /\ jobs[j]["total_files"] = 2
              /\ jobs[j]["successful_files"] = 0
              /\ jobs[j]["events"] = <<>>
        /\ \A k \in 1..2 :
              ( /\ Done(j)
                /\ Len(tasks[j].file_paths_and_names) = 2
                /\ tasks[j].env.unreadable = {k}
                /\ tasks[j].env.extract.k = "ok"
                /\ tasks[j].env.extract.summary # "text"
                /\ tasks[j].env.write_ok )
              => /\ jobs[j]["status"] = COMPLETED
                 /\ jobs[j]["total_files"] = 2
                 /\ jobs[j]["successful_files"] = 1
                 /\ jobs[j]["processed_files"] = <<jobs[j]["filenames"][3 - k]>>
                 /\ EventsOnlyFrom(jobs[j], 3 - k)

\* C4 witness: two different files were read and the extraction call raised
\* on the second.
C4_Witness ==
    \E j \in DOMAIN jobs :
        /\ TwoFilesAdapterRaised(j)
        /\ tasks[j].env.extract.on = 2
        /\ jobs[j]["filenames"] = <<pdf_a, txt_c>>
        /\ jobs[j]["status"] = COMPLETED

\* C5: every file in the upload directory belongs to a submission that was
\* accepted: a rejected submission has left no bytes there.
C5_NothingPersistedOnReject ==
    \A path \in DOMAIN uploads : path[1] \in DOMAIN jobs

\* C6: a request that is answered with an error changes neither the job map
\* nor the queue of background tasks, and its response carries no job
\* identifier.
C6_RejectedUploadNoJob ==
    [][ resp'.status_code # 200 =>
            /\ jobs' = jobs
            /\ tasks' = tasks
            /\ "body" \notin DOMAIN resp' ]_vars

\* C6 witness: with a job already stored, a list of more than 10 files was
\* refused by the batch entry point.
C6_Witness ==
    /\ resp.op = "upload-batch"
    /\ resp.status_code = 400
    /\ resp.detail.error = "Maximum 10 files per batch"
    /\ DOMAIN jobs # {}
    /\ DOMAIN tasks = DOMAIN jobs

\* C7: a file that was read is handed to the enhanced path exactly when
\* enhanced processing was requested, the submission has one file and the
\* file is a PDF; every other file that was read is collected for the batch
\* path, so a submission of two or more files never uses the enhanced path.
C7_EnhancedRouting ==
    \A j \in DOMAIN jobs :
        Done(j) =>
            LET t == tasks[j]
                n == Len(jobs[j]["filenames"])
                lonePdf(k) == /\ jobs[j]["use_enhanced_processing"]
                              /\ n = 1
                              /\ IsPdfName(jobs[j]["filenames"][k])
            IN  /\ Len(t.route) = n
                /\ \A k \in 1..n :
                      t.route[k] = IF k \in t.env.unreadable THEN "unread"
                                   ELSE IF lonePdf(k) THEN "enhanced"
                                   ELSE "batch"
                /\ Len(t.all_file_uploads) = Cardinality({k \in 1..n : t.route[k] = "batch"})

\* C7 witness: a lone b.PDF submitted with the flag went the enhanced way.
C7_Witness ==
    \E j \in DOMAIN jobs :
        /\ Done(j)
        /\ jobs[j]["filenames"] = <<pdf_B>>
        /\ tasks[j].route = <<"enhanced">>
        /\ tasks[j].extract_args = <<pdf_B>>
        /\ jobs[j]["status"] = COMPLETED
        /\ jobs[j]["successful_files"] = 1

\* the response is a file sent for an export of job j
Exported(j) ==
    /\ resp.op = "export"
    /\ resp.status_code = 200
    /\ resp.job_id = j

\* the value of a cell as the csv and the json writer put it in the file
Written(v, media_type) == IF media_type = "text/csv" THEN v ELSE CleanValue(v)

\* The file holds one row per event of `events`, each cell of a column that
\* the event carries is the event's value, and every column other than
\* Laytime is a field of some event of `events`.
BuiltFrom(file, events, media_type) ==
    /\ Len(file.rows) = Len(events)
    /\ \A c \in Range(file.columns) \ {"Laytime"} :
          \E i \in 1..Len(events) : c \in DOMAIN events[i]
    /\ \A c \in Range(preferred_columns) \ {"Laytime"} :
          (\E i \in 1..Len(events) : c \in DOMAIN events[i]) => c \in Range(file.columns)
    /\ \A i \in 1..Len(events) :
          \A c \in (Range(file.columns) \cap DOMAIN events[i]) \ {"Laytime"} :
              file.rows[i][c] = Written(events[i][c], media_type)

\* C8: the file of an export is built from the events of the request when
\* the request carries any, and from the job's stored events when it
\* carries none.
C8_OverrideWins ==
    \A j \in DOMAIN jobs :
        Exported(j) =>
            BuiltFrom(results[resp.path],
                      IF resp.request.events # <<>> THEN resp.request.events
                      ELSE jobs[j]["events"],
                      resp.media_type)

\* C8 witness: a job with stored events was exported with an event list in
\* the request.
C8_Witness ==
    \E j \in DOMAIN jobs :
        /\ Exported(j)
        /\ resp.request.events # <<>>
        /\ jobs[j]["events"] # <<>>
        /\ results[resp.path].columns # <<>>

ExportFiles == {path \in DOMAIN results : path[2] \in {"_export.csv", "_export.json"}}

\* the columns of the frame an export projects: those of the chosen events
\* and, when calculate_laytime ran and returned, those it adds
ColumnsBeforeDrops(j) ==
    LET events == IF resp.request.events # <<>> THEN resp.request.events
                  ELSE jobs[j]["events"]
        given == UNION {DOMAIN events[i] : i \in 1..Len(events)}
    IN  IF jobs[j]["summary"] # Empty /\ given # {} /\ resp.request.laytime = "ok"
        THEN given \cup {"Laytime", "laytime_utilization_%"}
        ELSE given

\* C9: the columns of every export file are canonical columns in canonical
\* order, none of them laytime_counts or a column of the denylist; the file
\* of the export just answered has exactly the canonical columns that the
\* event set had.
C9_CanonicalColumns ==
    /\ \A path \in ExportFiles :
          /\ IsSubList(results[path].columns, preferred_columns)
          /\ Range(results[path].columns)
                \cap (Range(columns_to_remove) \cup {"laytime_counts"}) = {}
          /\ \A i \in 1..Len(results[path].rows) :
                DOMAIN results[path].rows[i] = Range(results[path].columns)
    /\ \A j \in DOMAIN jobs :
          Exported(j) =>
              Range(results[resp.path].columns)
                  = Range(preferred_columns) \cap ColumnsBeforeDrops(j)

\* C9 witness: events carrying every canonical column, every column of the
\* denylist, laytime_counts and one more were exported.
C9_Witness ==
    \E j \in DOMAIN jobs :
        /\ Exported(j)
        /\ resp.request.events = <<ClientEvent(AllColumns)>>
        /\ results[resp.path].columns = preferred_columns

\* C10: an export of an identifier that is not in the job map is answered
\* 404 and one of a job that is PROCESSING or FAILED is answered 400,
\* whatever format and events the request has; neither writes a file.
C10_ExportRefused ==
    [][ (served' = served + 1 /\ resp'.op = "export") =>
            LET j == resp'.job_id
            IN  /\ j \notin DOMAIN jobs =>
                      /\ resp'.status_code = 404
                      /\ resp'.detail.error = "Job not found"
                      /\ results' = results
                /\ (j \in DOMAIN jobs /\ jobs[j]["status"] \in {PROCESSING, FAILED}) =>
                      /\ resp'.status_code = 400
                      /\ resp'.detail.error = "Job not completed yet"
                      /\ results' = results ]_vars

\* C10 witness: a JSON export with events in the request was refused with
\* 400 for a FAILED job.
C10_Witness ==
    \E j \in DOMAIN jobs :
        /\ jobs[j]["status"] = FAILED
        /\ resp.op = "export"
        /\ resp.job_id = j
        /\ resp.status_code = 400
        /\ resp.request.events # <<>>
        /\ resp.request.type = "JSON"
        /\ ExportFiles = {}

\* the step answers an export request
ExportStep == served' = served + 1 /\ resp'.op = "export"

\* C11: an export of a COMPLETED job that has events to export, asked in a
\* format that is neither csv nor json in any case, is answered with
\* status 400 and writes no file.
C11_UnsupportedFormatBadRequest ==
    [][ (/\ ExportStep
         /\ resp'.job_id \in DOMAIN jobs
         /\ jobs[resp'.job_id]["status"] = COMPLETED
         /\ ChosenEvents(jobs[resp'.job_id], resp'.request.events) # <<>>
         /\ LowerFormat(resp'.request.type) \notin {"csv", "json"})
        => /\ resp'.status_code = 400
           /\ results' = results ]_vars

\* C12: an export of a COMPLETED job whose stored events are empty, with no
\* event in the request, is answered 404 "No events found" whatever the
\* format, and writes no file.
C12_NoEventsNotFound ==
    [][ (/\ ExportStep
         /\ resp'.job_id \in DOMAIN jobs
         /\ jobs[resp'.job_id]["status"] = COMPLETED
         /\ jobs[resp'.job_id]["events"] = <<>>
         /\ resp'.request.events = <<>>)
        => /\ resp'.status_code = 404
           /\ resp'.detail.error = "No events found"
           /\ results' = results ]_vars

\* C12 witness: a COMPLETED job none of whose files was processed was asked
\* for without events in the request and the answer was 404, no export file
\* being there.
C12_Witness ==
    \E j \in DOMAIN jobs :
        /\ jobs[j]["status"] = COMPLETED
        /\ jobs[j]["events"] = <<>>
        /\ jobs[j]["successful_files"] = 0
        /\ resp.op = "export"
        /\ resp.job_id = j
        /\ resp.request.events = <<>>
        /\ resp.status_code = 404
        /\ resp.detail.error = "No events found"
        /\ ExportFiles = {}

\* the step answers a status, result or list request
ReadStep == served' = served + 1 /\ resp'.op \in {"result", "status", "jobs"}

\* C13: a status, result or list request changes nothing but the response,
\* and no step of any operation changes what a result or a status request
\* for a job in a terminal state is answered with; the answer of a request
\* is that data.
C13_ReadsIdempotent ==
    [][ /\ ReadStep =>
              /\ jobs' = jobs /\ uploads' = uploads /\ results' = results
              /\ tasks' = tasks /\ drawn' = drawn
        /\ (ReadStep /\ resp'.op = "result") => resp' = ResultResponse(resp'.job_id)
        /\ (ReadStep /\ resp'.op = "status") => resp' = StatusResponse(resp'.job_id)
        /\ \/ jobs' = jobs
           \/ \A j \in DOMAIN jobs :
                 Terminal(jobs[j]["status"]) =>
                     /\ ResultResponse(j)' = ResultResponse(j)
                     /\ StatusResponse(j)' = StatusResponse(j) ]_vars

\* C13 witness: after two requests were served and a second job was
\* submitted, the result of a job in a terminal state was read.
C13_Witness ==
    /\ served = MaxRequests
    /\ Cardinality(DOMAIN jobs) = 2
    /\ resp.op = "result"
    /\ resp.status_code = 200
    /\ Terminal(resp.body.status)

\* C14: a result request for an identifier that is not in the job map is
\* answered 404; for a job in the map it is answered 200 with the job's
\* status, with events, summary, processed files and counts (the job's own)
\* exactly when the job is COMPLETED, with the in-progress message and no
\* events exactly when it is PROCESSING, and with the job's error exactly
\* when it is FAILED.
C14_ResultByStatus ==
    [][ (served' = served + 1 /\ resp'.op = "result") =>
            LET j == resp'.job_id
            IN  IF j \notin DOMAIN jobs
                THEN /\ resp'.status_code = 404
                     /\ "body" \notin DOMAIN resp'
                ELSE LET job == jobs[j]
                         body == resp'.body
                     IN  /\ resp'.status_code = 200
                         /\ body.status = job["status"]
                         /\ (job["status"] = COMPLETED) <=>
                                {"events", "summary", "processed_files",
                                 "successful_files", "total_files"} \subseteq DOMAIN body
                         /\ job["status"] = COMPLETED =>
                                /\ body.events = job["events"]
                                /\ body.summary = job["summary"]
                                /\ body.processed_files = job["processed_files"]
                                /\ body.successful_files = job["successful_files"]
                                /\ body.total_files = job["total_files"]
                         /\ (job["status"] = PROCESSING) <=> "message" \in DOMAIN body
                         /\ job["status"] = PROCESSING => "events" \notin DOMAIN body
                         /\ (job["status"] = FAILED) <=> "error" \in DOMAIN body
                         /\ job["status"] = FAILED =>
                                /\ body.error = job["error"]
                                /\ "events" \notin DOMAIN body ]_vars

\* C14 witness: the result of a FAILED job was read and carried its error,
\* another job being COMPLETED with events.
C14_Witness ==
    /\ resp.op = "result"
    /\ resp.status_code = 200
    /\ resp.body.status = FAILED
    /\ resp.body.error = jobs[resp.job_id]["error"]
    /\ \E k \in DOMAIN jobs : jobs[k]["status"] = COMPLETED /\ jobs[k]["events"] # <<>>

\* C15: a job record has the field events or the field summary only if its
\* status is COMPLETED and the field error only if its status is FAILED.
C15_FieldsByStatus ==
    \A j \in DOMAIN jobs :
        /\ ("events" \in DOMAIN jobs[j] \/ "summary" \in DOMAIN jobs[j])
              => jobs[j]["status"] = COMPLETED
        /\ "error" \in DOMAIN jobs[j] => jobs[j]["status"] = FAILED

\* C15 witness: one job is FAILED with its error, another COMPLETED with
\* events and a summary.
C15_Witness ==
    /\ \E j \in DOMAIN jobs : jobs[j]["status"] = FAILED /\ "error" \in DOMAIN jobs[j]
    /\ \E j \in DOMAIN jobs :
          /\ jobs[j]["status"] = COMPLETED
          /\ jobs[j]["events"] # <<>>
          /\ jobs[j]["summary"] # Empty

Hung(job_id) == job_id \in DOMAIN tasks /\ tasks[job_id].state = "hung"

\* C16: the status of a job changes only in the step in which its task
\* runs, to a terminal status, and a record with a terminal status is not
\* written again; a job whose run hangs has status PROCESSING and keeps it;
\* every job eventually has a terminal status unless the run of some task
\* hangs.
C16_OneTerminalTransition ==
    /\ [][ \A j \in DOMAIN jobs :
              /\ Terminal(jobs[j]["status"]) => jobs'[j] = jobs[j]
              /\ jobs'[j] # jobs[j] =>
                    /\ tasks[j].state = "scheduled"
                    /\ tasks'[j].state = "done"
                    /\ Terminal(jobs'[j]["status"])
              /\ Hung(j) => tasks'[j].state = "hung" ]_vars
    /\ [](\A j \in DOMAIN jobs :
              /\ Done(j) <=> Terminal(jobs[j]["status"])
              /\ Hung(j) => jobs[j]["status"] = PROCESSING)
    /\ \A j \in JobIds :
          [](j \in DOMAIN jobs =>
                <>(\/ j \in DOMAIN jobs /\ Terminal(jobs[j]["status"])
                   \/ \E k \in DOMAIN tasks : Hung(k)))

\* C16 witness: the task of one job ran and left it with a terminal status,
\* the run of the task of another job hangs and that job is PROCESSING.
C16_Witness ==
    \E j, k \in DOMAIN jobs :
        /\ Done(j)
        /\ Terminal(jobs[j]["status"])
        /\ Hung(k)
        /\ jobs[k]["status"] = PROCESSING

\* C17: an export request, answered with a file or with an error, with or
\* without events in the request, leaves the job map as it was: no record
\* appears or disappears and every record keeps all its fields, among them
\* events, summary and status.
C17_ExportKeepsJobs ==
    [][ ExportStep =>
            /\ jobs' = jobs
            /\ \A j \in DOMAIN jobs :
                  /\ jobs'[j]["status"] = jobs[j]["status"]
                  /\ jobs[j]["status"] = COMPLETED =>
                        /\ jobs'[j]["events"] = jobs[j]["events"]
                        /\ jobs'[j]["summary"] = jobs[j]["summary"] ]_vars

\* C17 witness: a file was sent for an export whose request carried events
\* other than the stored ones, and the job has its stored events.
C17_Witness ==
    \E j \in DOMAIN jobs :
        /\ Exported(j)
        /\ resp.request.events # <<>>
        /\ jobs[j]["events"] # <<>>
        /\ jobs[j]["events"] # resp.request.events
        /\ jobs[j]["events"] = results[ResultPath(j)].events

\* the record of the job the step creates is, batch_name aside, the one a
\* submission of `files` with flag e gets from the plain entry point
PlainRecord(j, files, e) ==
    /\ DOMAIN jobs'[j] \ {"batch_name"} =
          {"job_id", "status", "user", "filenames", "total_files",
           "use_enhanced_processing", "created_at"}
    /\ jobs'[j]["job_id"] = j
    /\ jobs'[j]["status"] = PROCESSING
    /\ jobs'[j]["filenames"] = Filenames(files)
    /\ jobs'[j]["total_files"] = Len(files)
    /\ jobs'[j]["use_enhanced_processing"] = e
    /\ tasks'[j].file_paths_and_names = PathsAndNames(files, j)
    /\ tasks'[j].use_enhanced_processing = e

AllValid(files) ==
    \A i \in 1..Len(files) :
        /\ (<<".">> \o FileExtension(files[i].filename)) \in allowed_extensions
        /\ files[i].content.size <= MAX_FILE_SIZE

\* C18: the labeled entry point refuses a list of more than 10 valid files
\* with status 400 and creates no job, writes no file and schedules no task;
\* the plain entry point accepts that list and creates a job of all its
\* files; for a list of at most 10 valid files both entry points create the
\* same record, to which the labeled one adds batch_name when a non-empty
\* label was given, and nothing else.
C18_CapOnlyOnBatch ==
    [][ \A files \in UploadCases \ {<<>>}, e \in BOOLEAN :
          AllValid(files) =>
            /\ \A b \in BatchNames :
                  (resp'.op = "upload-batch" /\ upload_batch_documents(files, e, b)) =>
                      IF Len(files) > BatchLimit
                      THEN /\ resp'.status_code = 400
                           /\ resp'.detail.error = "Maximum 10 files per batch"
                           /\ jobs' = jobs /\ tasks' = tasks /\ uploads' = uploads
                      ELSE /\ resp'.status_code = 200
                           /\ \E j \in DOMAIN jobs' \ DOMAIN jobs :
                                 /\ PlainRecord(j, files, e)
                                 /\ "batch_name" \in DOMAIN jobs'[j] <=> Truthy(b)
                                 /\ Truthy(b) => jobs'[j]["batch_name"] = b
            /\ (resp'.op = "upload" /\ upload_documents(files, e)) =>
                  /\ resp'.status_code = 200
                  /\ \E j \in DOMAIN jobs' \ DOMAIN jobs :
                        /\ PlainRecord(j, files, e)
                        /\ "batch_name" \notin DOMAIN jobs'[j] ]_vars

\* C18 witness: the plain entry point took a list of 11 files, the labeled
\* one took a list of 10 with a label, and the labeled one has just refused
\* a list of more than 10.
C18_Witness ==
    /\ resp.op = "upload-batch"
    /\ resp.status_code = 400
    /\ resp.detail.error = "Maximum 10 files per batch"
    /\ \E j \in DOMAIN jobs :
          jobs[j]["total_files"] = BatchLimit + 1 /\ "batch_name" \notin DOMAIN jobs[j]
    /\ \E j \in DOMAIN jobs :
          jobs[j]["total_files"] = BatchLimit /\ "batch_name" \in DOMAIN jobs[j]

\* C19: in every state, and so in every state a status, result, list or
\* export request reads, a record with status COMPLETED has events, summary,
\* processed_files, successful_files and processed_at, and a record with
\* status FAILED has error and failed_at; the answer to a result request
\* that says COMPLETED carries those fields and one that says FAILED carries
\* the error.
C19_NoPartialRecord ==
    /\ \A j \in DOMAIN jobs :
          /\ jobs[j]["status"] = COMPLETED =>
                {"events", "summary", "processed_files", "successful_files",
                 "processed_at"} \subseteq DOMAIN jobs[j]
          /\ jobs[j]["status"] = FAILED =>
                {"error", "failed_at"} \subseteq DOMAIN jobs[j]
    /\ (resp.op = "result" /\ resp.status_code = 200) =>
          /\ resp.body.status = COMPLETED =>
                {"events", "summary", "processed_files", "successful_files",
                 "processed_at"} \subseteq DOMAIN resp.body
          /\ resp.body.status = FAILED => "error" \in DOMAIN resp.body
    /\ (resp.op = "status" /\ resp.status_code = 200 /\ resp.body.status = COMPLETED) =>
          resp.body.successful_files = jobs[resp.job_id]["successful_files"]

\* C19 witness: between the runs of two tasks (one job is COMPLETED, the
\* task of the other is still scheduled) a result request read the
\* COMPLETED job.
C19_Witness ==
    /\ resp.op = "result"
    /\ resp.status_code = 200
    /\ resp.body.status = COMPLETED
    /\ resp.body.processed_at = jobs[resp.job_id]["processed_at"]
    /\ \E k \in DOMAIN tasks : tasks[k].state = "scheduled"

\* a run that collected files for the standard pipeline and in which the
\* loader or the extraction call on them raised
BatchCallRaised(j) ==
    /\ Done(j)
    /\ tasks[j].all_file_uploads # <<>>
    /\ tasks[j].env.loader = "raise" \/ tasks[j].env.extract.k = "raise"
    /\ tasks[j].env.write_ok

\* C20: when the call of the standard pipeline on the collected files
\* raises, the job is still COMPLETED, none of the collected files is among
\* processed_files, successful_files counts processed_files, and the events
\* and processed files of the job are those the loop over the files had
\* gathered on the enhanced path before the call. (The dispatch rule sends a
\* file to the enhanced path only when it is the only file, so in such a run
\* the loop has gathered nothing.)
C20_BatchRaiseExcludesBatch ==
    \A j \in DOMAIN jobs :
        BatchCallRaised(j) =>
            LET before == FileLoop(StartLocals, tasks[j], 1, tasks[j].env)
            IN  /\ jobs[j]["status"] = COMPLETED
                /\ Range(tasks[j].all_file_uploads)
                      \cap Range(jobs[j]["processed_files"]) = {}
                /\ jobs[j]["successful_files"] = Len(jobs[j]["processed_files"])
                /\ jobs[j]["processed_files"] = before.processed_filenames
                /\ jobs[j]["events"] = before.all_events_list
                /\ "enhanced" \notin Range(tasks[j].route) =>
                      /\ jobs[j]["processed_files"] = <<>>
                      /\ jobs[j]["events"] = <<>>
                      /\ jobs[j]["successful_files"] = 0

\* C20 witness: ten files were collected, all were read, the extraction call
\* on them raised and the job is COMPLETED with none of them processed.
C20_Witness ==
    \E j \in DOMAIN jobs :
        /\ BatchCallRaised(j)
        /\ tasks[j].env.extract.k = "raise"
        /\ tasks[j].env.unreadable = {}
        /\ Len(tasks[j].all_file_uploads) = BatchLimit
        /\ tasks[j].extract_args = tasks[j].all_file_uploads
        /\ jobs[j]["total_files"] = BatchLimit
        /\ jobs[j]["successful_files"] = 0

\* the names of the files of a task whose position satisfies Keep, in the
\* order of submission
RECURSIVE NamesWhere(_, _, _)
NamesWhere(task, Keep(_), k) ==
    IF k > Len(task.file_paths_and_names) THEN <<>>
    ELSE (IF Keep(k) THEN <<task.file_paths_and_names[k].filename>> ELSE <<>>)
            \o NamesWhere(task, Keep, k + 1)

\* C21: in a run, the k-th file handled is the k-th file submitted; the
\* files collected for the standard pipeline, the files handed to the
\* extraction call and processed_files are in submission order; the events
\* of the job are the events of the extraction calls in the order of the
\* calls (a run makes at most one), event i being of the i-th file handed
\* to the call.
C21_SubmissionOrder ==
    \A j \in DOMAIN jobs :
        (Done(j) /\ jobs[j]["status"] = COMPLETED) =>
            LET task == tasks[j]
                n == Len(task.file_paths_and_names)
                Read(k) == k \notin task.env.unreadable
                Collected(k) == task.route[k] = "batch"
            IN  /\ Len(task.route) = n
                /\ \A k \in 1..n : (task.route[k] = "unread") <=> ~Read(k)
                /\ jobs[j]["filenames"] = NamesWhere(task, LAMBDA k : TRUE, 1)
                /\ task.all_file_uploads = NamesWhere(task, Collected, 1)
                /\ task.extract_args \in
                      {<<>>, task.all_file_uploads, NamesWhere(task, Read, 1)}
                /\ jobs[j]["processed_files"] \in {<<>>, NamesWhere(task, Read, 1)}
                /\ IsSubList(jobs[j]["processed_files"], jobs[j]["filenames"])
                /\ Len(jobs[j]["events"]) \in {0, Len(task.extract_args)}
                /\ \A i \in 1..Len(jobs[j]["events"]) :
                      jobs[j]["events"][i]["filename"]
                          = Str(NameText(task.extract_args[i]))

\* C21 witness: c.txt and a.pdf were submitted in this order, both were
\* processed, and the events are the one of c.txt, then the one of a.pdf.
C21_Witness ==
    \E j \in DOMAIN jobs :
        /\ Done(j)
        /\ jobs[j]["status"] = COMPLETED
        /\ jobs[j]["filenames"] = <<txt_c, pdf_a>>
        /\ jobs[j]["processed_files"] = <<txt_c, pdf_a>>
        /\ Len(jobs[j]["events"]) = 2
        /\ jobs[j]["events"][1]["filename"] = Str("c.txt")
        /\ jobs[j]["events"][2]["filename"] = Str("a.pdf")

\* C22: has_laytime_data of a COMPLETED job is true exactly when the job has
\* an event and some event has a laytime_counts field that is a non-empty
\* string. The stored field is str() of the pipeline's value or None, so a
\* frame whose laytime_counts cells are True or False gives true ("False"
\* is a non-empty string) and one whose cells are missing gives false.
C22_HasLaytimeData ==
    \A j \in DOMAIN jobs :
        (Done(j) /\ jobs[j]["status"] = COMPLETED) =>
            LET events == jobs[j]["events"]
                frame == tasks[j].env.extract.frame
            IN  /\ jobs[j]["has_laytime_data"] \in BOOLEAN
                /\ jobs[j]["has_laytime_data"] <=>
                      /\ events # <<>>
                      /\ \E i \in 1..Len(events) :
                            /\ "laytime_counts" \in DOMAIN events[i]
                            /\ events[i]["laytime_counts"].t = "str"
                            /\ events[i]["laytime_counts"].s # ""
                /\ events # <<>> =>
                      /\ frame \in {"counts", "nocounts"} => jobs[j]["has_laytime_data"]
                      /\ frame = "nan" => ~jobs[j]["has_laytime_data"]
                /\ jobs[j]["has_laytime_data"] = results[ResultPath(j)].has_laytime_data

\* C22 witness: the pipeline returned events whose laytime_counts is False;
\* the job stores them as "False" and has has_laytime_data true.
C22_Witness ==
    \E j \in DOMAIN jobs :
        /\ Done(j)
        /\ jobs[j]["status"] = COMPLETED
        /\ tasks[j].env.extract.k = "ok"
        /\ tasks[j].env.extract.frame = "nocounts"
        /\ jobs[j]["events"] # <<>>
        /\ jobs[j]["events"][1]["laytime_counts"] = Str("False")
        /\ jobs[j]["has_laytime_data"]

\* the file has the per-event fields that calculate_laytime computes
Augmented(file) ==
    /\ "Laytime" \in Range(file.columns)
    /\ \A i \in 1..Len(file.rows) : file.rows[i]["Laytime"] = Str("0.5")

\* the step answers an export request in a supported format for a COMPLETED
\* job with events to export
ExportOfEvents ==
    /\ ExportStep
    /\ resp'.job_id \in DOMAIN jobs
    /\ jobs[resp'.job_id]["status"] = COMPLETED
    /\ ChosenEvents(jobs[resp'.job_id], resp'.request.events) # <<>>
    /\ LowerFormat(resp'.request.type) \in {"csv", "json"}

\* some event of the list has a field
SomeField(events) == \E i \in 1..Len(events) : DOMAIN events[i] # {}

\* C23 as stated: the recomputation is attempted (and, when it returns, the
\* file carries its fields) exactly when the stored summary is non-empty
\* and the chosen event list is non-empty; when it raises, the export is
\* answered with the file of the chosen events without those fields.
C23_AsStated ==
    [][ ExportOfEvents =>
            LET job == jobs[resp'.job_id]
                events == ChosenEvents(job, resp'.request.events)
            IN  /\ resp'.status_code = 200
                /\ resp'.request.laytime = "ok" =>
                      (Augmented(results'[resp'.path])
                          <=> (job["summary"] # Empty /\ events # <<>>))
                /\ resp'.request.laytime = "raise" =>
                      results'[resp'.path].columns
                          = NormalizeColumns(DataFrame(events)).columns ]_vars

\* C23 amended: the recomputation is attempted exactly when the stored
\* summary is non-empty and the frame of the chosen events is non-empty,
\* that is when some chosen event has a field; a list of events without any
\* field is exported without it. When the recomputation raises, the export
\* is answered 200 with the file of the chosen events without the computed
\* fields.
C23_LaytimeRecomputation ==
    [][ ExportOfEvents =>
            LET job == jobs[resp'.job_id]
                events == ChosenEvents(job, resp'.request.events)
                file == results'[resp'.path]
            IN  /\ resp'.status_code = 200
                /\ resp'.request.laytime = "ok" =>
                      (Augmented(file)
                          <=> (job["summary"] # Empty /\ SomeField(events)))
                /\ resp'.request.laytime = "raise" =>
                      /\ file.columns = NormalizeColumns(DataFrame(events)).columns
                      /\ BuiltFrom(file, events, resp'.media_type)
                      /\ "Laytime" \in Range(file.columns) =>
                            \E i \in 1..Len(events) : "Laytime" \in DOMAIN events[i] ]_vars

\* C23 witness: a job with a summary was exported with events in the
\* request, calculate_laytime raised, and the file was sent without the
\* computed fields.
C23_Witness ==
    \E j \in DOMAIN jobs :
        /\ Exported(j)
        /\ jobs[j]["summary"] # Empty
        /\ resp.request.laytime = "raise"
        /\ resp.request.events # <<>>
        /\ SomeField(resp.request.events)
        /\ results[resp.path].columns # <<>>
        /\ ~Augmented(results[resp.path])

\* a run that collected files for the standard pipeline, whose loader
\* returned, and that had no token or got no document from the loader
BatchWithoutExtraction(j) ==
    /\ Done(j)
    /\ tasks[j].all_file_uploads # <<>>
    /\ tasks[j].env.loader \in {"docs", "nodocs"}
    /\ tasks[j].env.gemini_api_key = "" \/ tasks[j].env.loader = "nodocs"
    /\ tasks[j].env.write_ok

\* C24: when the standard pipeline runs on the collected files and no token
\* is configured or the loader returns no document, the extraction call is
\* not made and the job is COMPLETED with every file that was read in
\* processed_files, successful_files the number of files read, no event and
\* no summary.
C24_CountedWithoutExtraction ==
    \A j \in DOMAIN jobs :
        BatchWithoutExtraction(j) =>
            LET n == Len(tasks[j].file_paths_and_names)
                read == (1..n) \ tasks[j].env.unreadable
            IN  /\ tasks[j].extract_args = <<>>
                /\ tasks[j].env.extract.k = "na"
                /\ jobs[j]["status"] = COMPLETED
                /\ jobs[j]["processed_files"] = tasks[j].all_file_uploads
                /\ jobs[j]["processed_files"]
                      = NamesWhere(tasks[j], LAMBDA k : k \in read, 1)
                /\ jobs[j]["successful_files"] = Cardinality(read)
                /\ jobs[j]["total_files"] = n
                /\ jobs[j]["events"] = <<>>
                /\ jobs[j]["summary"] = Empty
                /\ ~jobs[j]["has_laytime_data"]

\* C24 witness: of two files without a token configured one could not be
\* read; the job is COMPLETED with the other one counted and no event.
C24_Witness ==
    \E j \in DOMAIN jobs :
        /\ BatchWithoutExtraction(j)
        /\ tasks[j].env.gemini_api_key = ""
        /\ tasks[j].env.loader = "docs"
        /\ tasks[j].env.unreadable = {1}
        /\ jobs[j]["total_files"] = 2
        /\ jobs[j]["successful_files"] = 1
        /\ jobs[j]["events"] = <<>>

\* C25: the content sent for an export request is the file built from the
\* events chosen for that request: those of its body when it has any, the
\* job's stored events otherwise.
C25_DeliveredIsOwn ==
    resp.op = "download" =>
        BuiltFrom(resp.content,
                  ChosenEvents(jobs[resp.job_id], resp.request.events),
                  resp.media_type)

\* C26: in the run of a task, if a file went through the enhanced path then
\* no file was collected for the standard pipeline and neither its loader
\* nor its extraction call was made; if the standard pipeline was invoked
\* then no file went through the enhanced path.
C26_OnePathPerJob ==
    \A j \in DOMAIN tasks :
        Done(j) =>
            LET t == tasks[j]
                enhanced == "enhanced" \in Range(t.route)
                batchCall == t.all_file_uploads # <<>> /\ t.env.loader # "na"
            IN  /\ enhanced =>
                      /\ t.all_file_uploads = <<>>
                      /\ "batch" \notin Range(t.route)
                      /\ t.env.loader = "na"
                      /\ t.extract_args \in {<<>>, <<t.file_paths_and_names[1].filename>>}
                      /\ Len(t.file_paths_and_names) = 1
                /\ batchCall =>
                      /\ ~enhanced
                      /\ t.extract_args \in {<<>>, t.all_file_uploads}
                /\ ~(enhanced /\ batchCall)

\* C26 witness: a lone a.pdf went through the enhanced path, whose call
\* raised, and the standard pipeline was not invoked afterwards.
C26_Witness ==
    \E j \in DOMAIN tasks :
        /\ Done(j)
        /\ tasks[j].route = <<"enhanced">>
        /\ tasks[j].extract_args = <<pdf_a>>
        /\ tasks[j].env.extract.k = "raise"
        /\ tasks[j].env.loader = "na"
        /\ tasks[j].all_file_uploads = <<>>
        /\ jobs[j]["status"] = COMPLETED
        /\ jobs[j]["successful_files"] = 0

\* the fields a record gets when it is created
CreationFields ==
    {"job_id", "user", "filenames", "total_files", "use_enhanced_processing",
     "created_at"}

\* C27: a step that takes job j from PROCESSING to a terminal status leaves
\* the set of jobs and the record of every other job as they were, and in
\* the record of j it leaves job_id, filenames, total_files, created_at (and
\* user and use_enhanced_processing) with the values they got at creation
\* and batch_name as the labeled entry point set it or left it out.
C27_TerminalTransitionFrame ==
    [][ \A j \in DOMAIN jobs :
          (jobs[j]["status"] = PROCESSING /\ Terminal(jobs'[j]["status"])) =>
              /\ DOMAIN jobs' = DOMAIN jobs
              /\ \A k \in DOMAIN jobs \ {j} : jobs'[k] = jobs[k]
              /\ \A f \in CreationFields : jobs'[j][f] = jobs[j][f]
              /\ jobs'[j]["job_id"] = j
              /\ jobs'[j]["filenames"]
                    = [i \in 1..Len(tasks[j].file_paths_and_names) |->
                          tasks[j].file_paths_and_names[i].filename]
              /\ jobs'[j]["total_files"] = Len(tasks[j].file_paths_and_names)
              /\ jobs'[j]["created_at"] = Now("created", j)
              /\ ("batch_name" \in DOMAIN jobs'[j]) <=> ("batch_name" \in DOMAIN jobs[j])
              /\ "batch_name" \in DOMAIN jobs[j] =>
                    jobs'[j]["batch_name"] = jobs[j]["batch_name"]
              /\ DOMAIN jobs[j] \subseteq DOMAIN jobs'[j] ]_vars

\* C27 witness: of two jobs the one submitted with a label has reached a
\* terminal status with its label, the other is PROCESSING with its task
\* scheduled.
C27_Witness ==
    \E j, k \in DOMAIN jobs :
        /\ j # k
        /\ Done(j)
        /\ Terminal(jobs[j]["status"])
        /\ "batch_name" \in DOMAIN jobs[j]
        /\ jobs[j]["batch_name"] = Str("voyage-7")
        /\ jobs[k]["status"] = PROCESSING
        /\ tasks[k].state = "scheduled"

\* C28: every event of a COMPLETED job names a file that is listed in
\* processed_files, and a COMPLETED job with successful_files = 0 has no
\* event, whatever fails in a run.
C28_EventsFromProcessedFiles ==
    \A j \in DOMAIN jobs :
        jobs[j]["status"] = COMPLETED =>
            /\ \A i \in 1..Len(jobs[j]["events"]) :
                  \E k \in 1..Len(jobs[j]["processed_files"]) :
                      jobs[j]["events"][i]["filename"]
                          = Str(NameText(jobs[j]["processed_files"][k]))
            /\ jobs[j]["successful_files"] = 0 => jobs[j]["events"] = <<>>

====
